---- MODULE Spec2Model ----
(***************************************************************************)
(* A model of rust-fundata: persistent lists, the batched queue, the       *)
(* red-black tree set and the leftist heap (Okasaki), with the mutating    *)
(* convenience wrappers of traits.rs.                                      *)
(*                                                                         *)
(* A List<T> is modelled as a TLA+ sequence (head first); Option<T> as a   *)
(* record with a `some` flag.                                              *)
(***************************************************************************)
EXTENDS Integers, Sequences, FiniteSets, Bags, TLC

\* ------------------------------------------------------------------ bounds
\* Items are drawn from 1..MaxItem.
MaxItem == 2
\* At most MaxPush items are ever added to the queue binding.
MaxPush == 4

\* Set elements are drawn from 1..MaxKey.
MaxKey == 7
\* A heap binding holds at most MaxHeap items.
MaxHeap == 3

\* At most MaxCalls snoc/split calls are made on the shared queue values.
MaxCalls == 5

\* At most MaxShareOps queue values (MaxShareTreeOps sets or heaps) are built
\* in the cell-level specification.
MaxShareOps == 4
MaxShareTreeOps == 3

Items == 1..MaxItem
Keys == 1..MaxKey

\* ------------------------------------------------------------------ Option
None == [some |-> FALSE]
Some(x) == [some |-> TRUE, val |-> x]

\* ------------------------------------------------------------------ list.rs
Nil == <<>>

List_is_empty(l) == l = Nil

List_cons(head, tail) == <<head>> \o tail

\* Stack::split for List: (&head, &tail), or None.
List_split(l) ==
  IF l = Nil THEN None ELSE Some([first |-> Head(l), rest |-> Tail(l)])

\* Stack::head via split.
List_head(l) ==
  IF List_split(l).some THEN Some(List_split(l).val.first) ELSE None

\* Stack::push on a binding: tmp takes the old value, the binding becomes
\* cons(v, tmp).
List_push(l, v) == List_cons(v, l)

\* List::split_into clones the cell: the same pair, owned.
List_split_into(l) ==
  IF l = Nil THEN None ELSE Some([first |-> Head(l), rest |-> Tail(l)])

\* The loop of reverse: result.push(first); current = rest.
RECURSIVE reverse_loop(_, _)
reverse_loop(result, current) ==
  IF ~List_split(current).some
    THEN result
    ELSE reverse_loop(List_push(result, List_split(current).val.first),
                      List_split(current).val.rest)

reverse(s) == reverse_loop(Nil, s)

\* ------------------------------------------------------------------ queue.rs
BatchedQueue(f, b) == [front |-> f, back |-> b]

BatchedQueue_empty == BatchedQueue(Nil, Nil)

\* A build that forgets to reverse the back list.
build_unreversed(front, back) ==
  IF List_is_empty(front)
    THEN BatchedQueue(back, Nil)
    ELSE BatchedQueue(front, back)

\* A build that moves back to the front and leaves it in back as well.
build_keeps_back(front, back) ==
  IF List_is_empty(front)
    THEN BatchedQueue(reverse(back), back)
    ELSE BatchedQueue(front, back)

build(front, back) ==
  IF List_is_empty(front)
    THEN BatchedQueue(reverse(back), Nil)
    ELSE BatchedQueue(front, back)

is_empty(self) == List_is_empty(self.front)

snoc(queue, value) ==
  IF is_empty(queue)
    THEN BatchedQueue(List_cons(value, Nil), Nil)
    ELSE BatchedQueue(queue.front, List_cons(value, queue.back))

split(self) ==
  IF ~List_split(self.front).some
    THEN None
    ELSE Some([first |-> List_split(self.front).val.first,
               rest  |-> build(List_split(self.front).val.rest, self.back)])

head(self) == List_head(self.front)

\* Queue::tail, the trait's default: split().map(|pair| pair.1).
tail(self) == IF split(self).some THEN Some(split(self).val.rest) ELSE None

split_into(self) ==
  IF ~List_split_into(self.front).some
    THEN IF ~List_split_into(reverse(self.back)).some
           THEN None
           ELSE Some([first |-> List_split_into(reverse(self.back)).val.first,
                      rest  |-> BatchedQueue(
                                  List_split_into(reverse(self.back)).val.rest,
                                  Nil)])
    ELSE Some([first |-> List_split_into(self.front).val.first,
               rest  |-> BatchedQueue(List_split_into(self.front).val.rest,
                                      self.back)])

\* The elements reverse moves: one push per turn of its loop.
RECURSIVE reverse_moves(_)
reverse_moves(current) ==
  IF ~List_split(current).some
    THEN 0
    ELSE 1 + reverse_moves(List_split(current).val.rest)

\* The elements build moves: those of its reversal, when it reverses.
build_moves(front, back) ==
  IF List_is_empty(front) THEN reverse_moves(back) ELSE 0

\* The elements split moves: those of its call of build.
split_moves(self) ==
  IF ~List_split(self.front).some
    THEN 0
    ELSE build_moves(List_split(self.front).val.rest, self.back)

\* ------------------------------------------------------------------ rbtree.rs
\* An RBTree is RBEmpty or a node; Rc<RBTreeNode> is the node itself.
RBEmpty == [tag |-> "RBEmpty"]

RBNonEmpty(color, left, value, right) ==
  [tag |-> "RBNonEmpty", color |-> color, value |-> value,
   left |-> left, right |-> right]

\* The pattern `RBNonEmpty(ref n) if n.color == Red`.
IsRedNode(t) == t.tag = "RBNonEmpty" /\ t.color = "Red"

black(left, value, right) == RBNonEmpty("Black", left, value, right)

\* A rotation that hands the two outer values to the wrong children.
build_rotated_nodes_swapped(a, x, b, y, c, z, d) ==
  RBNonEmpty("Red", black(a, z, b), y, black(c, x, d))

build_rotated_nodes(a, x, b, y, c, z, d) ==
  RBNonEmpty("Red", black(a, x, b), y, black(c, z, d))

\* A balance whose left-right case takes the left child's value for the new
\* root instead of the grandchild's.
balance_wrong_root(color, left_tree, value, right_tree) ==
  IF color = "Black" /\ IsRedNode(left_tree) /\ IsRedNode(left_tree.left)
    THEN build_rotated_nodes(
           left_tree.left.left, left_tree.left.value, left_tree.left.right,
           left_tree.value, left_tree.right, value, right_tree)
  ELSE IF color = "Black" /\ IsRedNode(left_tree) /\ IsRedNode(left_tree.right)
    THEN build_rotated_nodes(
           left_tree.left, left_tree.value, left_tree.right.left,
           left_tree.value, left_tree.right.right, value, right_tree)
  ELSE IF color = "Black" /\ IsRedNode(right_tree) /\ IsRedNode(right_tree.left)
    THEN build_rotated_nodes(
           left_tree, value, right_tree.left.left, right_tree.left.value,
           right_tree.left.right, right_tree.value, right_tree.right)
  ELSE IF color = "Black" /\ IsRedNode(right_tree) /\ IsRedNode(right_tree.right)
    THEN build_rotated_nodes(
           left_tree, value, right_tree.left, right_tree.value,
           right_tree.right.left, right_tree.right.value,
           right_tree.right.right)
  ELSE RBNonEmpty(color, left_tree, value, right_tree)

\* A balance that never rotates.
balance_no_rotation(color, left_tree, value, right_tree) ==
  RBNonEmpty(color, left_tree, value, right_tree)

\* The four cases are tried in the order of the code: left-left, left-right,
\* right-left, right-right; the first that matches returns.
balance(color, left_tree, value, right_tree) ==
  IF color = "Black" /\ IsRedNode(left_tree) /\ IsRedNode(left_tree.left)
    THEN build_rotated_nodes(
           left_tree.left.left, left_tree.left.value, left_tree.left.right,
           left_tree.value, left_tree.right, value, right_tree)
  ELSE IF color = "Black" /\ IsRedNode(left_tree) /\ IsRedNode(left_tree.right)
    THEN build_rotated_nodes(
           left_tree.left, left_tree.value, left_tree.right.left,
           left_tree.right.value, left_tree.right.right, value, right_tree)
  ELSE IF color = "Black" /\ IsRedNode(right_tree) /\ IsRedNode(right_tree.left)
    THEN build_rotated_nodes(
           left_tree, value, right_tree.left.left, right_tree.left.value,
           right_tree.left.right, right_tree.value, right_tree.right)
  ELSE IF color = "Black" /\ IsRedNode(right_tree) /\ IsRedNode(right_tree.right)
    THEN build_rotated_nodes(
           left_tree, value, right_tree.left, right_tree.value,
           right_tree.right.left, right_tree.right.value,
           right_tree.right.right)
  ELSE RBNonEmpty(color, left_tree, value, right_tree)

RECURSIVE copy_to_vec(_, _)
copy_to_vec(self, out) ==
  IF self.tag = "RBEmpty"
    THEN out
    ELSE copy_to_vec(self.right,
                     Append(copy_to_vec(self.left, out), self.value))

into_iter(self) == copy_to_vec(self, <<>>)

\* An ins that rebuilds the node it finds equal as a fresh Red leaf.
RECURSIVE ins_rebuilding(_, _)
ins_rebuilding(tree, value) ==
  IF tree.tag = "RBEmpty"
    THEN RBNonEmpty("Red", RBEmpty, value, RBEmpty)
  ELSE IF value < tree.value
    THEN balance(tree.color, ins_rebuilding(tree.left, value), tree.value,
                 tree.right)
  ELSE IF value > tree.value
    THEN balance(tree.color, tree.left, tree.value,
                 ins_rebuilding(tree.right, value))
  ELSE RBNonEmpty("Red", RBEmpty, value, RBEmpty)

RECURSIVE ins(_, _)
ins(tree, value) ==
  IF tree.tag = "RBEmpty"
    THEN RBNonEmpty("Red", RBEmpty, value, RBEmpty)
  ELSE IF value < tree.value
    THEN balance(tree.color, ins(tree.left, value), tree.value, tree.right)
  ELSE IF value > tree.value
    THEN balance(tree.color, tree.left, tree.value, ins(tree.right, value))
  ELSE tree

RBTree_empty == RBEmpty

\* A plus that returns what ins returns, Red root or not.
plus_unblackened(self, value) == ins(self, value)

plus(self, value) ==
  IF ins(self, value).color = "Red"
    THEN black(ins(self, value).left, ins(self, value).value,
               ins(self, value).right)
    ELSE ins(self, value)

RECURSIVE contains(_, _)
contains(self, value) ==
  IF self.tag = "RBEmpty"
    THEN FALSE
  ELSE IF value < self.value
    THEN contains(self.left, value)
  ELSE IF value > self.value
    THEN contains(self.right, value)
  ELSE TRUE

\* ------------------------------------------------------------------ heap.rs
Empty == [tag |-> "Empty"]

NonEmpty(rank, value, left, right) ==
  [tag |-> "NonEmpty", rank |-> rank, value |-> value,
   left |-> left, right |-> right]

rank(self) == IF self.tag = "Empty" THEN 0 ELSE self.rank

\* A make_heap whose swapped branch names the same child twice.
make_heap_same_child(x, a, b) ==
  IF rank(a) >= rank(b)
    THEN NonEmpty(rank(b) + 1, x, a, b)
    ELSE NonEmpty(rank(a) + 1, x, b, b)

\* A make_heap that keeps its children in the order given.
make_heap_unswapped(x, a, b) == NonEmpty(rank(b) + 1, x, a, b)

make_heap(x, a, b) ==
  IF rank(a) >= rank(b)
    THEN NonEmpty(rank(b) + 1, x, a, b)
    ELSE NonEmpty(rank(a) + 1, x, b, a)

LeftistHeap_empty == Empty

LeftistHeap_is_empty(self) == self.tag = "Empty"

\* A merge that keeps the greater root on top.
RECURSIVE merge_greater_root(_, _)
merge_greater_root(h1, h2) ==
  IF h1.tag = "Empty" THEN h2
  ELSE IF h2.tag = "Empty" THEN h1
  ELSE IF h1.value < h2.value
    THEN make_heap(h2.value, h2.left, merge_greater_root(h1, h2.right))
    ELSE make_heap(h1.value, h1.left, merge_greater_root(h1.right, h2))

\* On equal roots the root of h1 becomes the parent.
RECURSIVE merge(_, _)
merge(h1, h2) ==
  IF h1.tag = "Empty" THEN h2
  ELSE IF h2.tag = "Empty" THEN h1
  ELSE IF h1.value > h2.value
    THEN make_heap(h2.value, h2.left, merge(h1, h2.right))
    ELSE make_heap(h1.value, h1.left, merge(h1.right, h2))

insert(self, value) == merge(self, NonEmpty(1, value, Empty, Empty))

min(self) == IF self.tag = "Empty" THEN None ELSE Some(self.value)

without_min(self) ==
  IF self.tag = "Empty" THEN Empty ELSE merge(self.left, self.right)

\* ------------------------------------------------- the same code, with Rc
\* The operations once more, this time with the reference-counted cells
\* spelled out.  `st` is the sequence of all cells allocated so far
\* (Rc::new appends one); a handle is a cell's index, 0 for Nil, RBEmpty
\* and Empty.  Cloning an Rc copies the handle.  Each operation returns the
\* cells after it together with its result.
Rc_new(st, cell) == [st |-> Append(st, cell), h |-> Len(st) + 1]

\* list.rs
Rc_cons(st, item, rest) == Rc_new(st, [value |-> item, next |-> rest])

\* A reversal in place: it turns the cells' own next pointers around.
RECURSIVE Rc_reverse_in_place(_, _, _)
Rc_reverse_in_place(st, result, current) ==
  IF current = 0
    THEN [st |-> st, h |-> result]
    ELSE Rc_reverse_in_place([st EXCEPT ![current].next = result], current,
                             st[current].next)

RECURSIVE Rc_reverse_loop(_, _, _)
Rc_reverse_loop(st, result, current) ==
  IF current = 0
    THEN [st |-> st, h |-> result]
    ELSE LET pushed_ == Rc_cons(st, st[current].value, result)
         IN  Rc_reverse_loop(pushed_.st, pushed_.h, st[current].next)

Rc_reverse(st, s) == Rc_reverse_loop(st, 0, s)

\* queue.rs
Rc_build(st, front, back) ==
  IF front = 0
    THEN LET r == Rc_reverse(st, back)
         IN  [st |-> r.st, h |-> [front |-> r.h, back |-> 0]]
    ELSE [st |-> st, h |-> [front |-> front, back |-> back]]

Rc_queue_empty == [front |-> 0, back |-> 0]

Rc_snoc(st, queue, value) ==
  IF queue.front = 0
    THEN LET c == Rc_cons(st, value, 0)
         IN  [st |-> c.st, h |-> [front |-> c.h, back |-> 0]]
    ELSE LET c == Rc_cons(st, value, queue.back)
         IN  [st |-> c.st, h |-> [front |-> queue.front, back |-> c.h]]

\* split: None, or the first item and the cells and handle of the rest.
Rc_split(st, self) ==
  IF self.front = 0
    THEN None
    ELSE LET b == Rc_build(st, st[self.front].next, self.back)
         IN  Some([first |-> st[self.front].value, st |-> b.st, h |-> b.h])

\* rbtree.rs
Rc_rbnode(st, color, left, value, right) ==
  Rc_new(st, [color |-> color, value |-> value, left |-> left, right |-> right])

Rc_black(st, left, value, right) == Rc_rbnode(st, "Black", left, value, right)

Rc_build_rotated_nodes(st, a, x, b, y, c, z, d) ==
  LET l == Rc_black(st, a, x, b)
      r == Rc_black(l.st, c, z, d)
  IN  Rc_rbnode(r.st, "Red", l.h, y, r.h)

Rc_is_red(st, t) == t # 0 /\ st[t].color = "Red"

Rc_balance(st, color, left_tree, value, right_tree) ==
  IF color = "Black" /\ Rc_is_red(st, left_tree)
       /\ Rc_is_red(st, st[left_tree].left)
    THEN LET l == st[left_tree]
             ll == st[l.left]
         IN  Rc_build_rotated_nodes(st, ll.left, ll.value, ll.right, l.value,
                                    l.right, value, right_tree)
  ELSE IF color = "Black" /\ Rc_is_red(st, left_tree)
            /\ Rc_is_red(st, st[left_tree].right)
    THEN LET l == st[left_tree]
             lr == st[l.right]
         IN  Rc_build_rotated_nodes(st, l.left, l.value, lr.left, lr.value,
                                    lr.right, value, right_tree)
  ELSE IF color = "Black" /\ Rc_is_red(st, right_tree)
            /\ Rc_is_red(st, st[right_tree].left)
    THEN LET r == st[right_tree]
             rl == st[r.left]
         IN  Rc_build_rotated_nodes(st, left_tree, value, rl.left, rl.value,
                                    rl.right, r.value, r.right)
  ELSE IF color = "Black" /\ Rc_is_red(st, right_tree)
            /\ Rc_is_red(st, st[right_tree].right)
    THEN LET r == st[right_tree]
             rr == st[r.right]
         IN  Rc_build_rotated_nodes(st, left_tree, value, r.left, r.value,
                                    rr.left, rr.value, rr.right)
  ELSE Rc_rbnode(st, color, left_tree, value, right_tree)

RECURSIVE Rc_ins(_, _, _)
Rc_ins(st, tree_, value) ==
  IF tree_ = 0
    THEN Rc_rbnode(st, "Red", 0, value, 0)
  ELSE IF value < st[tree_].value
    THEN LET r == Rc_ins(st, st[tree_].left, value)
         IN  Rc_balance(r.st, st[tree_].color, r.h, st[tree_].value,
                        st[tree_].right)
  ELSE IF value > st[tree_].value
    THEN LET r == Rc_ins(st, st[tree_].right, value)
         IN  Rc_balance(r.st, st[tree_].color, st[tree_].left,
                        st[tree_].value, r.h)
  ELSE [st |-> st, h |-> tree_]

Rc_plus(st, self, value) ==
  LET rc == Rc_ins(st, self, value)
  IN  IF rc.st[rc.h].color = "Red"
        THEN Rc_black(rc.st, rc.st[rc.h].left, rc.st[rc.h].value,
                      rc.st[rc.h].right)
        ELSE rc

\* heap.rs
Rc_rank(st, self) == IF self = 0 THEN 0 ELSE st[self].rank

Rc_heapnode(st, rank_, value, left, right) ==
  Rc_new(st, [rank |-> rank_, value |-> value, left |-> left, right |-> right])

Rc_make_heap(st, x, a, b) ==
  IF Rc_rank(st, a) >= Rc_rank(st, b)
    THEN Rc_heapnode(st, Rc_rank(st, b) + 1, x, a, b)
    ELSE Rc_heapnode(st, Rc_rank(st, a) + 1, x, b, a)

RECURSIVE Rc_merge(_, _, _)
Rc_merge(st, h1, h2) ==
  IF h1 = 0 THEN [st |-> st, h |-> h2]
  ELSE IF h2 = 0 THEN [st |-> st, h |-> h1]
  ELSE IF st[h1].value > st[h2].value
    THEN LET m == Rc_merge(st, h1, st[h2].right)
         IN  Rc_make_heap(m.st, st[h2].value, st[h2].left, m.h)
    ELSE LET m == Rc_merge(st, st[h1].right, h2)
         IN  Rc_make_heap(m.st, st[h1].value, st[h1].left, m.h)

Rc_insert(st, self, value) ==
  LET single == Rc_heapnode(st, 1, value, 0, 0)
  IN  Rc_merge(single.st, self, single.h)

Rc_without_min(st, self) ==
  IF self = 0
    THEN [st |-> st, h |-> 0]
    ELSE Rc_merge(st, st[self].left, st[self].right)

\* The value a handle stands for, read off the cells.
RECURSIVE ListAt(_, _)
ListAt(st, h) ==
  IF h = 0 THEN Nil ELSE List_cons(st[h].value, ListAt(st, st[h].next))

QueueAt(st, h) == BatchedQueue(ListAt(st, h.front), ListAt(st, h.back))

RECURSIVE TreeAt(_, _)
TreeAt(st, h) ==
  IF h = 0 THEN RBEmpty
  ELSE RBNonEmpty(st[h].color, TreeAt(st, st[h].left), st[h].value,
                  TreeAt(st, st[h].right))

RECURSIVE HeapAt(_, _)
HeapAt(st, h) ==
  IF h = 0 THEN Empty
  ELSE NonEmpty(st[h].rank, st[h].value, HeapAt(st, st[h].left),
                HeapAt(st, st[h].right))

\* ------------------------------------------------------------------ state
VARIABLES
  q,        \* the queue binding (a BatchedQueue value)
  pushed,   \* ghost: every item added to q, in order
  popped,   \* ghost: every item removed from q, in order
  tree,     \* the set binding (an RBTree value)
  members,  \* ghost: the values added to tree
  prevTree, \* ghost: tree before the last add
  hs,       \* two heap bindings (LeftistHeap values)
  bags,     \* ghost: for each heap, how many of each item it should hold
  pool,     \* queue values obtained so far, each with the snoc calls and
            \* the moved elements of the calls that led to it
  nCalls,   \* snoc and split calls made on values of pool
  nSnoc,    \* snoc calls among them
  nMoved,   \* elements moved by reversals in all of them
  kind,     \* which structure the cells below belong to ("none" at first)
  store,    \* every cell allocated so far (Rc::new), in order
  shared,   \* the values obtained so far: handle, and ghost: the value it
            \* stood for when obtained and the value the operation should give
  lastOp,   \* ghost: the operation that ran last
  lastArg,  \* ghost: its argument
  lastRes   \* ghost: what it returned (an Option)

qvars == <<q, pushed, popped>>
svars == <<tree, members, prevTree>>
hvars == <<hs, bags>>
pvars == <<pool, nCalls, nSnoc, nMoved>>
rvars == <<kind, store, shared>>
vars == <<q, pushed, popped, tree, members, prevTree, hs, bags,
          pool, nCalls, nSnoc, nMoved, kind, store, shared,
          lastOp, lastArg, lastRes>>

EmptyBagOfItems == [x \in Items |-> 0]

Init ==
  /\ q = BatchedQueue_empty
  /\ pushed = <<>>
  /\ popped = <<>>
  /\ tree = RBTree_empty
  /\ members = {}
  /\ prevTree = RBTree_empty
  /\ hs = <<LeftistHeap_empty, LeftistHeap_empty>>
  /\ bags = <<EmptyBagOfItems, EmptyBagOfItems>>
  /\ pool = {[q |-> BatchedQueue_empty, snocs |-> 0, moved |-> 0]}
  /\ nCalls = 0
  /\ nSnoc = 0
  /\ nMoved = 0
  /\ kind = "none"
  /\ store = <<>>
  /\ shared = <<>>
  /\ lastOp = "empty"
  /\ lastArg = None
  /\ lastRes = None

\* ---------------------------------------------------------- queue actions
\* Queue::push_back: *self = snoc(self.clone(), value).
push_back(value) ==
  /\ Len(pushed) < MaxPush
  /\ q' = snoc(q, value)
  /\ pushed' = Append(pushed, value)
  /\ lastOp' = "push_back"
  /\ lastArg' = Some(value)
  /\ lastRes' = None
  /\ UNCHANGED <<popped, svars, hvars, pvars, rvars>>

\* BatchedQueue::pop_front: tmp takes the binding's value (the binding holds
\* empty()); on None the binding stays empty, else it becomes rest.
pop_front ==
  LET tmp == q
      r == split_into(tmp)
  IN  /\ q' = IF r.some THEN r.val.rest ELSE BatchedQueue_empty
      /\ popped' = IF r.some THEN Append(popped, r.val.first) ELSE popped
      /\ lastOp' = "pop_front"
      /\ lastArg' = None
      /\ lastRes' = IF r.some THEN Some(r.val.first) ELSE None
      /\ UNCHANGED <<pushed, svars, hvars, pvars, rvars>>

\* snoc on the latest queue value.
Snoc(value) ==
  /\ Len(pushed) < MaxPush
  /\ q' = snoc(q, value)
  /\ pushed' = Append(pushed, value)
  /\ lastOp' = "snoc"
  /\ lastArg' = Some(value)
  /\ lastRes' = None
  /\ UNCHANGED <<popped, svars, hvars, pvars, rvars>>

\* split on the latest queue value; the remainder becomes the latest value.
Split ==
  LET r == split(q)
  IN  /\ q' = IF r.some THEN r.val.rest ELSE q
      /\ popped' = IF r.some THEN Append(popped, r.val.first) ELSE popped
      /\ lastOp' = "split"
      /\ lastArg' = None
      /\ lastRes' = IF r.some THEN Some(r.val.first) ELSE None
      /\ UNCHANGED <<pushed, svars, hvars, pvars, rvars>>

\* tail on the latest queue value; head names the item it drops.
Tail_ ==
  LET r == tail(q)
  IN  /\ q' = IF r.some THEN r.val ELSE q
      /\ popped' = IF r.some THEN Append(popped, head(q).val) ELSE popped
      /\ lastOp' = "tail"
      /\ lastArg' = None
      /\ lastRes' = head(q)
      /\ UNCHANGED <<pushed, svars, hvars, pvars, rvars>>

\* split_into consumes the latest queue value.
SplitInto ==
  LET r == split_into(q)
  IN  /\ q' = IF r.some THEN r.val.rest ELSE q
      /\ popped' = IF r.some THEN Append(popped, r.val.first) ELSE popped
      /\ lastOp' = "split_into"
      /\ lastArg' = None
      /\ lastRes' = IF r.some THEN Some(r.val.first) ELSE None
      /\ UNCHANGED <<pushed, svars, hvars, pvars, rvars>>

\* The mutating wrappers on one binding.
MutNext == (\E v \in Items : push_back(v)) \/ pop_front
SpecMut == Init /\ [][MutNext]_vars

\* The pure operations on the latest value.
PureNext == (\E v \in Items : Snoc(v)) \/ Split
SpecPure == Init /\ [][PureNext]_vars

\* Every public operation of the queue.
QueueNext ==
  \/ \E v \in Items : push_back(v)
  \/ pop_front
  \/ \E v \in Items : Snoc(v)
  \/ Split
  \/ Tail_
  \/ SplitInto
SpecQueue == Init /\ [][QueueNext]_vars

\* ------------------------------------------------------------ set actions
\* Set::add: tmp takes the binding's value, the binding becomes tmp.plus(v).
add(v) ==
  LET tmp == tree
  IN  /\ tree' = plus(tmp, v)
      /\ prevTree' = tree
      /\ members' = members \cup {v}
      /\ lastOp' = "add"
      /\ lastArg' = Some(v)
      /\ lastRes' = None
      /\ UNCHANGED <<qvars, hvars, pvars, rvars>>

SetNext == \E v \in Keys : add(v)
SpecSet == Init /\ [][SetNext]_vars

\* ----------------------------------------------------------- heap actions
RECURSIVE BagSizeUpTo(_, _)
BagSizeUpTo(b, x) == IF x = 0 THEN 0 ELSE b[x] + BagSizeUpTo(b, x - 1)
BagSize(b) == BagSizeUpTo(b, MaxItem)

\* The least item of a non-empty bag.
BagMin(b) == CHOOSE x \in Items : b[x] > 0 /\ \A y \in Items : b[y] > 0 => x <= y

BagWithoutMin(b) ==
  IF BagSize(b) = 0 THEN b ELSE [b EXCEPT ![BagMin(b)] = @ - 1]

\* Heap::add: *self = self.insert(value).
Heap_add(i, value) ==
  /\ BagSize(bags[i]) < MaxHeap
  /\ hs' = [hs EXCEPT ![i] = insert(hs[i], value)]
  /\ bags' = [bags EXCEPT ![i] = [@ EXCEPT ![value] = @ + 1]]
  /\ lastOp' = "add"
  /\ lastArg' = Some(value)
  /\ lastRes' = None
  /\ UNCHANGED <<qvars, svars, pvars, rvars>>

\* Heap::pop: tmp takes the binding's value (the binding holds empty()); on
\* None the binding stays empty, else it becomes tmp.without_min().
Heap_pop(i) ==
  LET tmp == hs[i]
  IN  /\ hs' = [hs EXCEPT ![i] = IF min(tmp).some THEN without_min(tmp)
                                                  ELSE LeftistHeap_empty]
      /\ bags' = [bags EXCEPT ![i] = BagWithoutMin(@)]
      /\ lastOp' = "pop"
      /\ lastArg' = IF BagSize(bags[i]) = 0 THEN None ELSE Some(BagMin(bags[i]))
      /\ lastRes' = min(tmp)
      /\ UNCHANGED <<qvars, svars, pvars, rvars>>

\* without_min on the binding's value; the result becomes the value.
WithoutMin(i) ==
  /\ hs' = [hs EXCEPT ![i] = without_min(hs[i])]
  /\ bags' = [bags EXCEPT ![i] = BagWithoutMin(@)]
  /\ lastOp' = "without_min"
  /\ lastArg' = None
  /\ lastRes' = None
  /\ UNCHANGED <<qvars, svars, pvars, rvars>>

\* merge of the two bindings' values (clones); the result becomes binding i.
Merge(i, j) ==
  /\ i # j
  /\ BagSize(bags[i]) + BagSize(bags[j]) <= MaxHeap
  /\ hs' = [hs EXCEPT ![i] = merge(hs[i], hs[j])]
  /\ bags' = [bags EXCEPT ![i] = [x \in Items |-> bags[i][x] + bags[j][x]]]
  /\ lastOp' = "merge"
  /\ lastArg' = Some(<<hs[i], hs[j]>>)
  /\ lastRes' = None
  /\ UNCHANGED <<qvars, svars, pvars, rvars>>

HeapNext ==
  \/ \E i \in 1..2, v \in Items : Heap_add(i, v)
  \/ \E i \in 1..2 : Heap_pop(i)
  \/ \E i \in 1..2 : WithoutMin(i)
  \/ \E i \in 1..2, j \in 1..2 : Merge(i, j)
SpecHeap == Init /\ [][HeapNext]_vars

\* ------------------------------------------- shared queue values (pure use)
\* snoc applied to any queue value obtained so far.
SharedSnoc(e, value) ==
  /\ nCalls < MaxCalls
  /\ pool' = pool \cup {[q |-> snoc(e.q, value), snocs |-> e.snocs + 1,
                          moved |-> e.moved]}
  /\ nCalls' = nCalls + 1
  /\ nSnoc' = nSnoc + 1
  /\ nMoved' = nMoved
  /\ lastOp' = "snoc"
  /\ lastArg' = Some(value)
  /\ lastRes' = None
  /\ UNCHANGED <<qvars, svars, hvars, rvars>>

\* split applied to any queue value obtained so far.
SharedSplit(e) ==
  LET r == split(e.q)
  IN  /\ nCalls < MaxCalls
      /\ pool' = IF r.some
                   THEN pool \cup {[q |-> r.val.rest, snocs |-> e.snocs,
                                    moved |-> e.moved + split_moves(e.q)]}
                   ELSE pool
      /\ nCalls' = nCalls + 1
      /\ nSnoc' = nSnoc
      /\ nMoved' = nMoved + split_moves(e.q)
      /\ lastOp' = "split"
      /\ lastArg' = None
      /\ lastRes' = IF r.some THEN Some(r.val.first) ELSE None
      /\ UNCHANGED <<qvars, svars, hvars, rvars>>

SharedNext ==
  \/ \E e \in pool, v \in Items : SharedSnoc(e, v)
  \/ \E e \in pool : SharedSplit(e)
SpecShared == Init /\ [][SharedNext]_vars

\* ------------------------------------------------ values sharing cells
\* The handle an operation is applied to: one obtained earlier, or (0) a
\* fresh empty().
Operand(i, emptyHandle) == IF i = 0 THEN emptyHandle ELSE shared[i].h

Obtained(h, snap, expect) == [h |-> h, snap |-> snap, expect |-> expect]

Rc_Snoc(i, value) ==
  LET old == Operand(i, Rc_queue_empty)
      r == Rc_snoc(store, old, value)
  IN  /\ kind \in {"none", "queue"}
      /\ Len(shared) < MaxShareOps
      /\ kind' = "queue"
      /\ store' = r.st
      /\ shared' = Append(shared, Obtained(r.h, QueueAt(r.st, r.h),
                                           snoc(QueueAt(store, old), value)))
      /\ lastOp' = "snoc"
      /\ lastArg' = Some(value)
      /\ lastRes' = None
      /\ UNCHANGED <<qvars, svars, hvars, pvars>>

Rc_Split(i) ==
  LET old == Operand(i, Rc_queue_empty)
      r == Rc_split(store, old)
  IN  /\ kind \in {"none", "queue"}
      /\ Len(shared) < MaxShareOps
      /\ kind' = "queue"
      /\ store' = IF r.some THEN r.val.st ELSE store
      /\ shared' = IF r.some
                     THEN Append(shared,
                                 Obtained(r.val.h, QueueAt(r.val.st, r.val.h),
                                          split(QueueAt(store, old)).val.rest))
                     ELSE shared
      /\ lastOp' = "split"
      /\ lastArg' = None
      /\ lastRes' = IF r.some THEN Some(r.val.first) ELSE None
      /\ UNCHANGED <<qvars, svars, hvars, pvars>>

Rc_Plus(i, value) ==
  LET old == Operand(i, 0)
      r == Rc_plus(store, old, value)
  IN  /\ kind \in {"none", "set"}
      /\ Len(shared) < MaxShareTreeOps
      /\ kind' = "set"
      /\ store' = r.st
      /\ shared' = Append(shared, Obtained(r.h, TreeAt(r.st, r.h),
                                           plus(TreeAt(store, old), value)))
      /\ lastOp' = "plus"
      /\ lastArg' = Some(value)
      /\ lastRes' = None
      /\ UNCHANGED <<qvars, svars, hvars, pvars>>

Rc_Insert(i, value) ==
  LET old == Operand(i, 0)
      r == Rc_insert(store, old, value)
  IN  /\ kind \in {"none", "heap"}
      /\ Len(shared) < MaxShareTreeOps
      /\ kind' = "heap"
      /\ store' = r.st
      /\ shared' = Append(shared, Obtained(r.h, HeapAt(r.st, r.h),
                                           insert(HeapAt(store, old), value)))
      /\ lastOp' = "insert"
      /\ lastArg' = Some(value)
      /\ lastRes' = None
      /\ UNCHANGED <<qvars, svars, hvars, pvars>>

Rc_WithoutMin(i) ==
  LET old == Operand(i, 0)
      r == Rc_without_min(store, old)
  IN  /\ kind \in {"none", "heap"}
      /\ Len(shared) < MaxShareTreeOps
      /\ kind' = "heap"
      /\ store' = r.st
      /\ shared' = Append(shared, Obtained(r.h, HeapAt(r.st, r.h),
                                           without_min(HeapAt(store, old))))
      /\ lastOp' = "without_min"
      /\ lastArg' = None
      /\ lastRes' = None
      /\ UNCHANGED <<qvars, svars, hvars, pvars>>

Rc_Merge(i, j) ==
  LET h1 == Operand(i, 0)
      h2 == Operand(j, 0)
      r == Rc_merge(store, h1, h2)
  IN  /\ kind \in {"none", "heap"}
      /\ Len(shared) < MaxShareTreeOps
      /\ kind' = "heap"
      /\ store' = r.st
      /\ shared' = Append(shared,
                          Obtained(r.h, HeapAt(r.st, r.h),
                                   merge(HeapAt(store, h1), HeapAt(store, h2))))
      /\ lastOp' = "merge"
      /\ lastArg' = None
      /\ lastRes' = None
      /\ UNCHANGED <<qvars, svars, hvars, pvars>>

RcNext ==
  \/ \E i \in 0..Len(shared), v \in Items : Rc_Snoc(i, v)
  \/ \E i \in 0..Len(shared) : Rc_Split(i)
  \/ \E i \in 0..Len(shared), v \in Keys : Rc_Plus(i, v)
  \/ \E i \in 0..Len(shared), v \in Items : Rc_Insert(i, v)
  \/ \E i \in 0..Len(shared) : Rc_WithoutMin(i)
  \/ \E i \in 0..Len(shared), j \in 0..Len(shared) : Rc_Merge(i, j)
SpecRc == Init /\ [][RcNext]_vars

Next == QueueNext \/ SetNext \/ HeapNext \/ SharedNext \/ RcNext
Spec == Init /\ [][Next]_vars

\* ------------------------------------------------------------ queue claims
\* The items a queue value holds, front to back, read off the two lists.
RevSeq(s) == [i \in 1..Len(s) |-> s[Len(s) + 1 - i]]
Contents(queue) == queue.front \o RevSeq(queue.back)

\* The items added and not yet removed, oldest first.
Remaining == SubSeq(pushed, Len(popped) + 1, Len(pushed))

\* What repeated split yields, each split on the remainder of the one before.
RECURSIVE Drain(_)
Drain(queue) ==
  IF ~split(queue).some
    THEN <<>>
    ELSE <<split(queue).val.first>> \o Drain(split(queue).val.rest)

PoppedIsPrefix ==
  /\ Len(popped) <= Len(pushed)
  /\ \A k \in 1..Len(popped) : popped[k] = pushed[k]

\* C1: on one binding driven by push_back and pop_front, the k-th item
\* pop_front returns is the k-th item pushed, the binding holds exactly the
\* items pushed and not yet returned (none lost, none returned twice), and
\* pop_front returns None only when nothing is left.
C1_PopFrontFifo ==
  /\ PoppedIsPrefix
  /\ Contents(q) = Remaining
  /\ (lastOp = "pop_front" /\ ~lastRes.some) => Len(popped) = Len(pushed)

\* C2: with snoc and split alone, items come out in the order they were
\* snoc'ed, repeated split yields exactly the items still in the queue and
\* then None, and split returns None only when nothing is left.
C2_PureFifo ==
  /\ PoppedIsPrefix
  /\ Drain(q) = Remaining
  /\ split(q).some <=> Len(popped) < Len(pushed)
  /\ (lastOp = "split" /\ ~lastRes.some) => Len(popped) = Len(pushed)

\* Three items went in, a reversal moved two of them, all three came out in
\* order and a fourth split returned None.
C2_Witness ==
  /\ pushed = <<1, 2, 1>>
  /\ popped = pushed
  /\ lastOp = "split"
  /\ ~lastRes.some

\* C3: is_empty is true, and head and split are None, exactly when the
\* queue holds no item in front or in back.
C3_EmptinessExact ==
  LET holdsNothing == q.front = Nil /\ q.back = Nil
  IN  /\ is_empty(q) <=> holdsNothing
      /\ ~head(q).some <=> holdsNothing
      /\ ~split(q).some <=> holdsNothing

\* -------------------------------------------------------------- set claims
\* The elements of a finite set of integers in ascending order.
RECURSIVE Ascending(_)
Ascending(S) ==
  IF S = {} THEN <<>>
  ELSE LET m == CHOOSE x \in S : \A y \in S : x <= y
       IN  <<m>> \o Ascending(S \ {m})

\* The values stored in a tree, and the tree with its subtrees.
RECURSIVE ValuesOf(_)
ValuesOf(t) ==
  IF t.tag = "RBEmpty" THEN {}
  ELSE ValuesOf(t.left) \cup {t.value} \cup ValuesOf(t.right)

RECURSIVE Subtrees(_)
Subtrees(t) ==
  IF t.tag = "RBEmpty" THEN {t}
  ELSE {t} \cup Subtrees(t.left) \cup Subtrees(t.right)

\* Every node's value lies above its left subtree and below its right one.
IsSearchTree(t) ==
  \A n \in Subtrees(t) :
    n.tag = "RBNonEmpty" =>
      /\ \A x \in ValuesOf(n.left) : x < n.value
      /\ \A x \in ValuesOf(n.right) : n.value < x

\* C4: contains is true of every value added to the set and false of every
\* other value.
C4_MembershipRoundTrip ==
  \A x \in Keys : contains(tree, x) <=> x \in members

\* Some values have been added, others not, and a rotation has run.
C4_Witness ==
  /\ members = {1, 2, 3, 5}
  /\ tree.value = 2
  /\ ~contains(tree, 4)

\* C5: iterating the tree yields the distinct added values in strictly
\* ascending order, every node separates its two subtrees, and the balance
\* applied at a node during the next insertion keeps the in-order sequence
\* (left subtree, value, right subtree).
C5_InOrderAscending ==
  /\ into_iter(tree) = Ascending(members)
  /\ IsSearchTree(tree)
  /\ \A n \in Subtrees(tree), v \in Keys :
       n.tag = "RBNonEmpty" =>
         /\ into_iter(balance(n.color, ins(n.left, v), n.value, n.right))
              = into_iter(ins(n.left, v)) \o <<n.value>> \o into_iter(n.right)
         /\ into_iter(balance(n.color, n.left, n.value, ins(n.right, v)))
              = into_iter(n.left) \o <<n.value>> \o into_iter(ins(n.right, v))

\* The values 4, 2, 5, 1, 3 (the order pattern of 5, 3, 8, 1, 4) are in.
C5_Witness ==
  /\ members = {1, 2, 3, 4, 5}
  /\ tree = plus(plus(plus(plus(plus(RBTree_empty, 4), 2), 5), 1), 3)
  /\ into_iter(tree) = <<1, 2, 3, 4, 5>>

\* C6: adding a value the set already contains returns a tree equal to the
\* one before (shape, colors, values), so its iteration is the same, and
\* the node found equal is the existing node.
C6_PlusIdempotent ==
  /\ (lastOp = "add" /\ contains(prevTree, lastArg.val)) =>
       /\ tree = prevTree
       /\ into_iter(tree) = into_iter(prevTree)
  /\ \A n \in Subtrees(tree) :
       n.tag = "RBNonEmpty" => ins(n, n.value) = n

\* A value below the root of a four-element tree was added a second time.
C6_Witness ==
  /\ lastOp = "add"
  /\ Cardinality(members) = 4
  /\ contains(prevTree, lastArg.val)
  /\ lastArg.val # tree.value

\* ------------------------------------------------------------- heap claims
RECURSIVE CountOf(_, _)
CountOf(h, x) ==
  IF h.tag = "Empty" THEN 0
  ELSE (IF h.value = x THEN 1 ELSE 0) + CountOf(h.left, x) + CountOf(h.right, x)

\* The items of a bag in ascending order, each as often as it occurs.
RECURSIVE BagAscendingFrom(_, _)
BagAscendingFrom(b, x) ==
  IF x > MaxItem THEN <<>>
  ELSE [i \in 1..b[x] |-> x] \o BagAscendingFrom(b, x + 1)
BagAscending(b) == BagAscendingFrom(b, 1)

\* What repeated min / without_min yields.
RECURSIVE Extract(_)
Extract(h) ==
  IF ~min(h).some THEN <<>> ELSE <<min(h).val>> \o Extract(without_min(h))

\* C7: the heap holds exactly the items inserted and not yet removed, min
\* returns the smallest of them (None when there is none), pop returns that
\* smallest item and removes one occurrence of it, and repeated extraction
\* yields the remaining items in ascending order, duplicates included.
C7_HeapExtractsAscending ==
  /\ \A i \in 1..2 :
       /\ \A x \in Items : CountOf(hs[i], x) = bags[i][x]
       /\ min(hs[i]) = IF BagSize(bags[i]) = 0 THEN None
                                                ELSE Some(BagMin(bags[i]))
       /\ Extract(hs[i]) = BagAscending(bags[i])
  /\ lastOp = "pop" => lastRes = lastArg

\* A pop returned the smaller item of a heap that still holds a duplicate.
C7_Witness ==
  /\ lastOp = "pop"
  /\ lastRes = Some(1)
  /\ bags[1] = [x \in Items |-> IF x = 2 THEN 2 ELSE 0]

\* C8: merge(A, B) holds the multiset union of A and B, as does merge(B, A),
\* and merging with the empty heap on either side returns the other heap.
C8_MergeUnion ==
  /\ \A x \in Items :
       /\ CountOf(merge(hs[1], hs[2]), x) = CountOf(hs[1], x) + CountOf(hs[2], x)
       /\ CountOf(merge(hs[2], hs[1]), x) = CountOf(hs[1], x) + CountOf(hs[2], x)
  /\ \A i \in 1..2 :
       /\ merge(hs[i], LeftistHeap_empty) = hs[i]
       /\ merge(LeftistHeap_empty, hs[i]) = hs[i]
  /\ lastOp = "merge" =>
       \E i \in 1..2 :
         /\ hs[i] = merge(lastArg.val[1], lastArg.val[2])
         /\ \A x \in Items :
              CountOf(hs[i], x)
                = CountOf(lastArg.val[1], x) + CountOf(lastArg.val[2], x)
         /\ lastArg.val[2] = LeftistHeap_empty => hs[i] = lastArg.val[1]
         /\ lastArg.val[1] = LeftistHeap_empty => hs[i] = lastArg.val[2]

\* Two non-empty heaps with a common item were merged.
C8_Witness ==
  /\ lastOp = "merge"
  /\ BagSize(bags[1]) = 3
  /\ CountOf(lastArg.val[1], 1) = 1
  /\ CountOf(lastArg.val[2], 1) = 1
  /\ CountOf(hs[1], 1) = 2

\* ------------------------------------------------------ amortized cost claim
\* C10 as stated: over snoc/split calls each applied to any queue value
\* obtained earlier, the elements moved by reversals never exceed the snoc
\* calls made.
C10_TotalMovesWithinSnocs == nMoved <= nSnoc

\* C10 amended: along a chain of calls, each applied to the queue the call
\* before it returned, the elements moved by reversals never exceed the
\* snoc calls of the chain; the elements still in back are those snoc'ed
\* and not yet moved.
C10_ChainMovesWithinSnocs ==
  \A e \in pool : e.moved + Len(e.q.back) <= e.snocs

\* A chain of three snocs and a split that moved two elements to the front,
\* and a second split of the same value, which moved them again.
C10_Witness ==
  /\ \E e \in pool : e.snocs = 3 /\ e.moved = 2 /\ Len(e.q.front) = 2
  /\ nSnoc = 3
  /\ nMoved = 4

\* ---------------------------------------------------------- persistence claim
\* The cell-level operations give the values the operations on values give.
RcAgreesWithValues ==
  \A i \in 1..Len(shared) : shared[i].snap = shared[i].expect

\* C9: whatever operations have run since a value was obtained, on it or on
\* values derived from it, the value reads as it did when it was obtained:
\* the same cells (no node of it was modified) and the same observable
\* contents (queue head and split sequence, set membership and iteration,
\* heap minimum and extraction sequence).
C9_OldValuesUnchanged ==
  \A i \in 1..Len(shared) :
    LET was == shared[i].snap
    IN  /\ kind = "queue" =>
             LET now == QueueAt(store, shared[i].h)
             IN  /\ now = was
                 /\ head(now) = head(was)
                 /\ Drain(now) = Drain(was)
        /\ kind = "set" =>
             LET now == TreeAt(store, shared[i].h)
             IN  /\ now = was
                 /\ into_iter(now) = into_iter(was)
                 /\ \A k \in Keys : contains(now, k) = contains(was, k)
        /\ kind = "heap" =>
             LET now == HeapAt(store, shared[i].h)
             IN  /\ now = was
                 /\ min(now) = min(was)
                 /\ Extract(now) = Extract(was)

\* A queue with two items in back was split, which reversed them, and the
\* queue it was split from is still among the values.
C9_Witness ==
  /\ kind = "queue"
  /\ Len(shared) = 4
  /\ shared[3].snap = BatchedQueue(<<1>>, <<1, 2>>)
  /\ shared[4].snap = BatchedQueue(<<2, 1>>, Nil)
  /\ lastOp = "split"

\* ------------------------------------------------- representation invariants
\* C11: every queue value the public operations produce, starting from
\* empty(), has a non-empty front whenever its back is non-empty: front is
\* empty only if back is empty too (so a removal that empties front has
\* moved the whole back, reversed, to the front).
C11_FrontEmptyOnlyIfBackEmpty ==
  List_is_empty(q.front) => List_is_empty(q.back)

\* The numbers of Black nodes on the paths from the root of t to an Empty
\* position.
RECURSIVE BlackCounts(_)
BlackCounts(t) ==
  IF t.tag = "RBEmpty" THEN {0}
  ELSE {k + (IF t.color = "Black" THEN 1 ELSE 0) :
          k \in BlackCounts(t.left) \cup BlackCounts(t.right)}

NoRedRed(t) ==
  \A n \in Subtrees(t) :
    IsRedNode(n) => ~IsRedNode(n.left) /\ ~IsRedNode(n.right)

\* C12: after any sequence of add/plus from the empty tree, no Red node has
\* a Red child, every path from the root to an Empty position passes the
\* same number of Black nodes, and the root is Black; the same holds of the
\* tree plus returns for any further value.
C12_RedBlackInvariant ==
  /\ NoRedRed(tree)
  /\ Cardinality(BlackCounts(tree)) = 1
  /\ tree.tag = "RBNonEmpty" => tree.color = "Black"
  /\ \A v \in Keys :
       /\ plus(tree, v).color = "Black"
       /\ NoRedRed(plus(tree, v))
       /\ Cardinality(BlackCounts(plus(tree, v))) = 1

\* Six values are in, and the tree has a Red node above two Black nodes:
\* a rotation's result was recoloured further up.
C12_Witness ==
  /\ lastOp = "add"
  /\ Cardinality(members) = 6
  /\ \E n \in Subtrees(tree) :
       /\ IsRedNode(n)
       /\ n.left.tag = "RBNonEmpty"
       /\ n.right.tag = "RBNonEmpty"

\* A heap with its sub-heaps, and the length of its right spine.
RECURSIVE SubHeaps(_)
SubHeaps(h) ==
  IF h.tag = "Empty" THEN {h}
  ELSE {h} \cup SubHeaps(h.left) \cup SubHeaps(h.right)

RECURSIVE RightSpine(_)
RightSpine(h) == IF h.tag = "Empty" THEN 0 ELSE 1 + RightSpine(h.right)

\* C13: in every heap reachable from empty() by add/insert, pop, without_min
\* and merge, every node has rank(left) >= rank(right) and a stored rank of
\* 1 + rank(right), with rank(Empty) = 0: the stored rank is the length of
\* the node's right spine.
C13_LeftistInvariant ==
  \A i \in 1..2 :
    \A n \in SubHeaps(hs[i]) :
      n.tag = "NonEmpty" =>
        /\ rank(n.left) >= rank(n.right)
        /\ n.rank = 1 + rank(n.right)
        /\ n.rank = RightSpine(n)

\* A merge put a heap of one item under a root whose left child was already
\* there: the root has rank 2.
C13_Witness ==
  /\ lastOp = "merge"
  /\ hs[1].tag = "NonEmpty"
  /\ hs[1].rank = 2
  /\ BagSize(bags[1]) = 3

\* The number of nodes on the longest path from the root to an Empty position.
RECURSIVE Height(_)
Height(t) ==
  IF t.tag = "RBEmpty" THEN 0
  ELSE 1 + (IF Height(t.left) >= Height(t.right) THEN Height(t.left)
                                                 ELSE Height(t.right))

\* C14: a tree built by add from the empty tree that holds n distinct
\* elements has height at most 2*log2(n+1), that is 2^(height/2) <= n+1;
\* squared to stay within the integers: 2^height <= (n+1)^2.
C14_HeightBound ==
  LET n == Len(into_iter(tree))
  IN  /\ n = Cardinality(members)
      /\ 2 ^ Height(tree) <= (n + 1) * (n + 1)

\* Seven values are in and the longest path has four nodes.
C14_Witness ==
  /\ lastOp = "add"
  /\ Cardinality(members) = 7
  /\ Height(tree) = 4

====
